---- MODULE Spec2Model ----
(***************************************************************************)
(* Model of ThrOMP (src/USER-OMP/thr_omp.cpp): the per-thread tally of     *)
(* energy and virial into ThrData accumulators and the reduction of the    *)
(* per-thread sums into the shared totals of a force style.                *)
(*                                                                         *)
(* One behaviour is one force-evaluation phase of one style (thr_style) in *)
(* one timestep: every thread runs ev_setup_thr, then tallies a number of  *)
(* interactions, then runs reduce_thr.                                     *)
(*                                                                         *)
(* Numbers.  The code computes in double.  The model computes exactly, in  *)
(* integer multiples of 1/Unit of the energy unit; every energy and force  *)
(* fed to a tally is a whole multiple of Unit, so that the factors 0.5,    *)
(* THIRD, 0.25 and 1/n (n <= 4) the code applies are exact.  Rounding of   *)
(* the last bit of a double is not modelled.                               *)
(***************************************************************************)
EXTENDS Integers, Sequences, FiniteSets, TLC

\* ------------------------------------------------------------------ bounds
NThreads == 2      \* comm->nthreads
NLocal == 1        \* atom->nlocal
NGhost == 1        \* atom->nghost
MaxCalls == 2      \* tally calls in one phase, all threads together
MaxList == 2       \* longest list handed to ev_tally_list_thr
MaxE == 1          \* energies and forces are k*Unit, k in 1..MaxE
MaxF == 1          \* a per-thread force slice is a*(m+1)+b at element m, a, b in 0..MaxF
MaxRuns == 2       \* runs of the force reduction: the one of reduce_thr, and one more
MaxFix == 3        \* fixes registered in lmp->modify

\* ------------------------------------------------------------- arithmetic
Unit == 3 * 4

\* num/den * x, the product of a double by the constant num/den
Scale(num, den, x) == (num * x) \div den

Zero6 == <<0, 0, 0, 0, 0, 0>>
VAdd(a, b) == [n \in 1..6 |-> a[n] + b[n]]
VScale(num, den, a) == [n \in 1..6 |-> Scale(num, den, a[n])]

\* ------------------------------------------------------------- the system
nthreads == NThreads
nlocal == NLocal
nghost == NGhost
nall == nlocal + nghost

Threads == 0..(nthreads - 1)
Atoms == 0..(nall - 1)
NullPtr == -1

THR_PAIR == "THR_PAIR"
THR_BOND == "THR_BOND"
THR_ANGLE == "THR_ANGLE"
THR_DIHEDRAL == "THR_DIHEDRAL"
THR_IMPROPER == "THR_IMPROPER"
THR_KSPACE == "THR_KSPACE"
Styles == {THR_PAIR, THR_BOND, THR_ANGLE, THR_DIHEDRAL, THR_IMPROPER, THR_KSPACE}

\* eflag: bit 1 global energy, bit 2 per-atom energy.
\* vflag: bits 1-2 global virial (2: by F dot r), bit 4 per-atom virial.
EFlags == {0, 1, 2, 3}
VFlags == {0, 1, 2, 4, 5, 6}
Bit(flag, b) == (flag \div b) % 2 = 1

EVals == {n * Unit : n \in 1..MaxE}
Dels == {<<1, 2, 3>>}
Dels2 == {<<2, 0, 1>>}
Forces == {<<e, 2 * e, 3 * e>> : e \in EVals}

\* the force and torque arrays: nthreads slices of ndim*nall values, thread 0's
\* slice being the array proper
ndim == 3
nvals == ndim * nall
Elems == 0..(nthreads * nvals - 1)
Slices == {[m \in 0..(nvals - 1) |-> a * (m + 1) + b] : a \in 0..MaxF, b \in 0..MaxF}
Arrays == {[i \in Elems |-> s[i \div nvals][i % nvals]] : s \in [Threads -> Slices]}
NoArray == <<>>

VARIABLES
  cfg,      \* what the phase runs with: thr_style, last_omp_style, eflag, vflag, newton
  pc,       \* pc[t]: where thread t is
  thr,      \* thr[t]: the ThrData of thread t
  eatom,    \* the shared per-atom energy buffer, nthreads*nall cells
  vatom,    \* the shared per-atom virial buffer, nthreads*nall rows of 6
  force,    \* the shared totals of the styles (lmp->force->pair, bond, ...)
  base,     \* the shared totals as they were when the phase began
  critical, \* the thread inside the omp critical section, or NullPtr
  reg,      \* reg[t]: the totals thread t has read and not yet written back
  ncalls,   \* tally calls made so far
  call,     \* the most recent tally call of a thread still tallying: its arguments
  pre,      \* thr[call.tid], eatom, vatom as they were before that call
  tallied,  \* the energies handed to the tallies so far, summed
  atom,     \* lmp->atom: f and torque, nthreads slices of nall*3 values (torque <<>>: none)
  atom0,    \* f and torque as they were before the force reduction
  wrote,    \* wrote[i]: the threads whose force reduction has written element i of f
  run,      \* runs of the force reduction begun so far
  modify,   \* lmp->modify->fix: the ids of the registered fixes, in order
  engine,   \* the ThrOMP object: not yet constructed, constructed, or ended in error->all
  nsync     \* nsync[t]: the calls of sync_threads() thread t has made in reduce_thr

vars == <<cfg, pc, thr, eatom, vatom, force, base, critical, reg, ncalls, call, pre, tallied, atom, atom0, wrote, run, modify, engine, nsync>>

\* Modify::find_fix(id): the index of the first fix of that id, -1 when none has it
find_fix(fixes, id) ==
  IF \E n \in 1..Len(fixes) : fixes[n] = id
    THEN (CHOOSE n \in 1..Len(fixes) : fixes[n] = id /\ \A k \in 1..(n - 1) : fixes[k] # id) - 1
    ELSE -1

\* a constructor that does not test what find_fix returns
ThrOMP_nocheck(fixes) == [state |-> "built", fix |-> find_fix(fixes, "package_omp")]

\* ThrOMP::ThrOMP: error->all() ends the program, the constructor does not return
ThrOMP(fixes) ==
  LET ifix == find_fix(fixes, "package_omp")
  IN IF ifix < 0
       THEN [state |-> "fatal", fix |-> NullPtr]
       ELSE [state |-> "built", fix |-> ifix]

NoEngine == [state |-> "unborn", fix |-> NullPtr]

ThrData0 ==
  [ eng_vdwl |-> 0, eng_coul |-> 0, eng_bond |-> 0, eng_angle |-> 0,
    eng_dihed |-> 0, eng_imprp |-> 0, eng_kspce |-> 0,
    virial_pair |-> Zero6, virial_bond |-> Zero6, virial_angle |-> Zero6,
    virial_dihed |-> Zero6, virial_imprp |-> Zero6, virial_kspce |-> Zero6,
    _eatom |-> NullPtr, _vatom |-> NullPtr ]

\* The request flags of the style object, set by its ev_setup from eflag, vflag.
StyleFlags(c) ==
  LET fdotr == c.thr_style = THR_PAIR /\ c.vflag % 4 = 2
      eg == Bit(c.eflag, 1)
      ea == Bit(c.eflag, 2)
      vg == (c.vflag % 4 # 0) /\ ~fdotr
      va == Bit(c.vflag, 4)
  IN [ eflag_global |-> eg, eflag_atom |-> ea, eflag_either |-> eg \/ ea,
       vflag_global |-> vg, vflag_atom |-> va, vflag_either |-> vg \/ va,
       vflag_fdotr |-> fdotr ]

pair == StyleFlags(cfg)
dihed == StyleFlags(cfg)

Totals(e, v) ==
  [ pair |-> [eng_vdwl |-> e, eng_coul |-> 2 * e, virial |-> v],
    bond |-> [energy |-> e, virial |-> v],
    angle |-> [energy |-> e, virial |-> v],
    dihedral |-> [energy |-> e, virial |-> v],
    improper |-> [energy |-> e, virial |-> v],
    kspace |-> [energy |-> e, virial |-> v] ]

\* what reg[t] holds while thread t is not between a read and a write of the totals
NoTotals == Totals(0, Zero6)

NoCall ==
  [ op |-> "none", tid |-> 0, idx |-> <<>>, newton |-> FALSE,
    evdwl |-> 0, ecoul |-> 0, v |-> Zero6 ]
NoPre == [thr |-> ThrData0, eatom |-> <<>>, vatom |-> <<>>]

Init ==
  /\ cfg \in { c \in [ thr_style : Styles, last_omp_style : Styles,
                       eflag : EFlags, vflag : VFlags, newton : BOOLEAN ] :
                 /\ c.last_omp_style \in {c.thr_style, THR_KSPACE}
                 /\ (c.vflag % 4 = 2 => c.thr_style = THR_PAIR) }
  /\ pc = [t \in Threads |-> "setup"]
  /\ thr = [t \in Threads |-> ThrData0]
  /\ eatom = [c \in 0..(nthreads * nall - 1) |-> 0]
  /\ vatom = [c \in 0..(nthreads * nall - 1) |-> Zero6]
  /\ force = Totals(5 * Unit, <<Unit, 0, 0, 0, 0, 2 * Unit>>)
  /\ base = force
  /\ critical = NullPtr
  /\ reg = [t \in Threads |-> NoTotals]
  /\ ncalls = 0
  /\ call = NoCall
  /\ pre = NoPre
  /\ tallied = 0
  /\ atom = [f |-> [i \in Elems |-> (i \div nvals) + (i % nvals)], torque |-> NoArray]
  /\ atom0 = atom
  /\ wrote = [i \in Elems |-> {}]
  /\ run = 1
  /\ modify = <<"package_omp">>
  /\ engine = ThrOMP(modify)
  /\ nsync = [t \in Threads |-> 0]

\* ------------------------------------------------------------ ev_setup_thr
\* thr->_eatom = eatom + tid*nall, thr->_vatom = vatom + tid*nall
\* a setup that hands every thread the first slice
ev_setup_thr_nooffset(eflag, vflag, nall_, td, tid) == [td EXCEPT !._eatom = IF Bit(eflag, 2) THEN 0 ELSE @, !._vatom = IF Bit(vflag, 4) THEN 0 ELSE @]

\* a setup that clears the slice that is not asked for
ev_setup_thr_reset(eflag, vflag, nall_, td, tid) == [td EXCEPT !._eatom = IF Bit(eflag, 2) THEN tid * nall_ ELSE NullPtr, !._vatom = IF Bit(vflag, 4) THEN tid * nall_ ELSE NullPtr]

ev_setup_thr(eflag, vflag, nall_, td, tid) ==
  LET t1 == IF Bit(eflag, 2) THEN [td EXCEPT !._eatom = tid * nall_] ELSE td
  IN IF Bit(vflag, 4) THEN [t1 EXCEPT !._vatom = tid * nall_] ELSE t1

\* a style with the /omp suffix is created: its ThrOMP part is constructed
Construct ==
  /\ engine = NoEngine
  /\ engine' = ThrOMP(modify)
  /\ UNCHANGED <<cfg, pc, thr, eatom, vatom, force, base, critical, reg, ncalls, call, pre, tallied, atom, atom0, wrote, run, modify, nsync>>

Setup(t) ==
  /\ pc[t] = "setup"
  /\ engine.state = "built"
  /\ thr' = [thr EXCEPT ![t] = ev_setup_thr(cfg.eflag, cfg.vflag, nall, thr[t], t)]
  /\ pc' = [pc EXCEPT ![t] = "tally"]
  /\ UNCHANGED <<cfg, eatom, vatom, force, base, critical, reg, ncalls, call, pre, tallied, atom, atom0, wrote, run, modify, engine, nsync>>

\* ------------------------------------------------------------------ tally
\* What a tally of thread t reads and writes: its ThrData and the two buffers.
Mem(t) == [thr |-> thr[t], eatom |-> eatom, vatom |-> vatom]

\* thr->_eatom[i] += x
eatom_add(h, i, x) == [h EXCEPT !.eatom[h.thr._eatom + i] = @ + x]

\* v_tally(vout, vin) and v_tally(vout, scale, vin), scale = sc[1]/sc[2]
v_tally(vout, vin) == VAdd(vout, vin)
v_tally_scale(vout, sc, vin) == VAdd(vout, VScale(sc[1], sc[2], vin))

\* v_tally(thr->_vatom[i], scale, v)
vatom_add(h, i, sc, v) ==
  [h EXCEPT !.vatom[h.thr._vatom + i] = v_tally_scale(@, sc, v)]

\* e_tally_thr, if (pair->eflag_global): half mode with the j test left out
e_tally_global_nojtest(h, i, j, nlocal_, newton_pair, evdwl, ecoul) ==
  LET evdwlhalf == Scale(1, 2, evdwl)
      ecoulhalf == Scale(1, 2, ecoul)
      g1 == IF i < nlocal_
              THEN [h EXCEPT !.thr.eng_vdwl = @ + evdwlhalf, !.thr.eng_coul = @ + ecoulhalf]
              ELSE h
  IN IF newton_pair
       THEN [h EXCEPT !.thr.eng_vdwl = @ + evdwl, !.thr.eng_coul = @ + ecoul]
       ELSE [g1 EXCEPT !.thr.eng_vdwl = @ + evdwlhalf, !.thr.eng_coul = @ + ecoulhalf]

\* e_tally_thr, if (pair->eflag_global): half mode with the half of j left out
e_tally_global_nojhalf(h, i, j, nlocal_, newton_pair, evdwl, ecoul) ==
  LET evdwlhalf == Scale(1, 2, evdwl)
      ecoulhalf == Scale(1, 2, ecoul)
  IN IF newton_pair
       THEN [h EXCEPT !.thr.eng_vdwl = @ + evdwl, !.thr.eng_coul = @ + ecoul]
       ELSE IF i < nlocal_
              THEN [h EXCEPT !.thr.eng_vdwl = @ + evdwlhalf, !.thr.eng_coul = @ + ecoulhalf]
              ELSE h

\* e_tally_thr, the body of if (pair->eflag_global)
e_tally_global(h, i, j, nlocal_, newton_pair, evdwl, ecoul) ==
  LET evdwlhalf == Scale(1, 2, evdwl)
      ecoulhalf == Scale(1, 2, ecoul)
      g1 == IF i < nlocal_
              THEN [h EXCEPT !.thr.eng_vdwl = @ + evdwlhalf, !.thr.eng_coul = @ + ecoulhalf]
              ELSE h
      g2 == IF j < nlocal_
              THEN [g1 EXCEPT !.thr.eng_vdwl = @ + evdwlhalf, !.thr.eng_coul = @ + ecoulhalf]
              ELSE g1
  IN IF newton_pair
       THEN [h EXCEPT !.thr.eng_vdwl = @ + evdwl, !.thr.eng_coul = @ + ecoul]
       ELSE g2

\* e_tally_thr, if (pair->eflag_atom): with the ownership test alone
e_tally_atom_owned(h, i, j, nlocal_, newton_pair, evdwl, ecoul) ==
  LET epairhalf == Scale(1, 2, evdwl + ecoul)
      a1 == IF i < nlocal_ THEN eatom_add(h, i, epairhalf) ELSE h
  IN IF j < nlocal_ THEN eatom_add(a1, j, epairhalf) ELSE a1

\* e_tally_thr, the body of if (pair->eflag_atom)
e_tally_atom(h, i, j, nlocal_, newton_pair, evdwl, ecoul) ==
  LET epairhalf == Scale(1, 2, evdwl + ecoul)
      a1 == IF newton_pair \/ i < nlocal_ THEN eatom_add(h, i, epairhalf) ELSE h
  IN IF newton_pair \/ j < nlocal_ THEN eatom_add(a1, j, epairhalf) ELSE a1

e_tally_thr(h, p, i, j, nlocal_, newton_pair, evdwl, ecoul) ==
  LET g == IF p.eflag_global
             THEN e_tally_global(h, i, j, nlocal_, newton_pair, evdwl, ecoul) ELSE h
  IN IF p.eflag_atom THEN e_tally_atom(g, i, j, nlocal_, newton_pair, evdwl, ecoul) ELSE g

\* v_tally_thr, if (pair->vflag_global): half mode adding v, not 0.5*v, for i
v_tally_global_full(h, i, j, nlocal_, newton_pair, v) ==
  LET g1 == IF i < nlocal_
              THEN [h EXCEPT !.thr.virial_pair = v_tally(@, v)] ELSE h
      g2 == IF j < nlocal_
              THEN [g1 EXCEPT !.thr.virial_pair = v_tally_scale(@, <<1, 2>>, v)] ELSE g1
  IN IF newton_pair THEN [h EXCEPT !.thr.virial_pair = v_tally(@, v)] ELSE g2

\* v_tally_thr, the body of if (pair->vflag_global)
v_tally_global(h, i, j, nlocal_, newton_pair, v) ==
  LET g1 == IF i < nlocal_
              THEN [h EXCEPT !.thr.virial_pair = v_tally_scale(@, <<1, 2>>, v)] ELSE h
      g2 == IF j < nlocal_
              THEN [g1 EXCEPT !.thr.virial_pair = v_tally_scale(@, <<1, 2>>, v)] ELSE g1
  IN IF newton_pair THEN [h EXCEPT !.thr.virial_pair = v_tally(@, v)] ELSE g2

\* v_tally_thr, the body of if (pair->vflag_atom)
v_tally_atom(h, i, j, nlocal_, newton_pair, v) ==
  LET a1 == IF newton_pair \/ i < nlocal_ THEN vatom_add(h, i, <<1, 2>>, v) ELSE h
  IN IF newton_pair \/ j < nlocal_ THEN vatom_add(a1, j, <<1, 2>>, v) ELSE a1

v_tally_thr(h, p, i, j, nlocal_, newton_pair, v) ==
  LET g == IF p.vflag_global THEN v_tally_global(h, i, j, nlocal_, newton_pair, v) ELSE h
  IN IF p.vflag_atom THEN v_tally_atom(g, i, j, nlocal_, newton_pair, v) ELSE g

\* v of ev_tally_thr: del (x) del * fpair, as xx, yy, zz, xy, xz, yz
virial_pair_v(fpair, del) ==
  << del[1] * del[1] * fpair, del[2] * del[2] * fpair, del[3] * del[3] * fpair,
     del[1] * del[2] * fpair, del[1] * del[3] * fpair, del[2] * del[3] * fpair >>

ev_tally_thr(h, p, i, j, nlocal_, newton_pair, evdwl, ecoul, fpair, del) ==
  LET h1 == IF p.eflag_either
              THEN e_tally_thr(h, p, i, j, nlocal_, newton_pair, evdwl, ecoul) ELSE h
  IN IF p.vflag_either
       THEN v_tally_thr(h1, p, i, j, nlocal_, newton_pair, virial_pair_v(fpair, del))
       ELSE h1

\* A tally call of thread t that left the memory as h: store it and record the call.
Called(t, h, c) ==
  /\ pre' = Mem(t)
  /\ thr' = [thr EXCEPT ![t] = h.thr]
  /\ eatom' = h.eatom
  /\ vatom' = h.vatom
  /\ call' = c
  /\ ncalls' = ncalls + 1
  /\ tallied' = tallied + c.evdwl + c.ecoul
  /\ UNCHANGED <<cfg, pc, force, base, critical, reg, atom, atom0, wrote, run, modify, engine, nsync>>

PairTally(t) ==
  /\ pc[t] = "tally"
  /\ cfg.thr_style = THR_PAIR
  /\ ncalls < MaxCalls
  /\ \E i \in Atoms, j \in Atoms, evdwl \in EVals, ec \in EVals, fpair \in EVals, del \in Dels :
       LET ecoul == 0 - 2 * ec IN
       Called(t, ev_tally_thr(Mem(t), pair, i, j, nlocal, cfg.newton, evdwl, ecoul, fpair, del),
              [ op |-> "ev_tally_thr", tid |-> t, idx |-> <<i, j>>, newton |-> cfg.newton,
                evdwl |-> evdwl, ecoul |-> ecoul, v |-> virial_pair_v(fpair, del) ])

\* v of ev_tally3_thr: drji (x) fj + drki (x) fk
virial3_v(fj, fk, drji, drki) ==
  << drji[1] * fj[1] + drki[1] * fk[1], drji[2] * fj[2] + drki[2] * fk[2],
     drji[3] * fj[3] + drki[3] * fk[3], drji[1] * fj[2] + drki[1] * fk[2],
     drji[1] * fj[3] + drki[1] * fk[3], drji[2] * fj[3] + drki[2] * fk[3] >>

\* ev_tally3_thr, if (pair->eflag_atom): with the share of k left out
tally3_eatom_nok(h, i, j, k, evdwl, ecoul) ==
  LET epairthird == Scale(1, 3, evdwl + ecoul)
  IN eatom_add(eatom_add(h, i, epairthird), j, epairthird)

\* ev_tally3_thr, the body of if (pair->eflag_atom)
tally3_eatom(h, i, j, k, evdwl, ecoul) ==
  LET epairthird == Scale(1, 3, evdwl + ecoul)
  IN eatom_add(eatom_add(eatom_add(h, i, epairthird), j, epairthird), k, epairthird)

ev_tally3_thr(h, p, i, j, k, evdwl, ecoul, fj, fk, drji, drki) ==
  LET g == IF p.eflag_global
             THEN [h EXCEPT !.thr.eng_vdwl = @ + evdwl, !.thr.eng_coul = @ + ecoul] ELSE h
      a == IF p.eflag_atom THEN tally3_eatom(g, i, j, k, evdwl, ecoul) ELSE g
      h1 == IF p.eflag_either THEN a ELSE h
      v == virial3_v(fj, fk, drji, drki)
      w == IF p.vflag_global THEN [h1 EXCEPT !.thr.virial_pair = v_tally(@, v)] ELSE h1
      x == IF p.vflag_atom
             THEN vatom_add(vatom_add(vatom_add(w, i, <<1, 3>>, v), j, <<1, 3>>, v), k, <<1, 3>>, v)
             ELSE w
  IN IF p.vflag_either THEN x ELSE h1

\* drim (x) fi + drjm (x) fj + drkm (x) fk; ev_tally4_thr takes a quarter of it as v
virial4_v(fi, fj, fk, drim, drjm, drkm) ==
  << drim[1] * fi[1] + drjm[1] * fj[1] + drkm[1] * fk[1],
     drim[2] * fi[2] + drjm[2] * fj[2] + drkm[2] * fk[2],
     drim[3] * fi[3] + drjm[3] * fj[3] + drkm[3] * fk[3],
     drim[1] * fi[2] + drjm[1] * fj[2] + drkm[1] * fk[2],
     drim[1] * fi[3] + drjm[1] * fj[3] + drkm[1] * fk[3],
     drim[2] * fi[3] + drjm[2] * fj[3] + drkm[2] * fk[3] >>

ev_tally4_thr(h, p, i, j, k, m, evdwl, fi, fj, fk, drim, drjm, drkm) ==
  LET g == IF p.eflag_global THEN [h EXCEPT !.thr.eng_vdwl = @ + evdwl] ELSE h
      epairfourth == Scale(1, 4, evdwl)
      a == IF p.eflag_atom
             THEN eatom_add(eatom_add(eatom_add(eatom_add(g, i, epairfourth),
                                                j, epairfourth), k, epairfourth), m, epairfourth)
             ELSE g
      h1 == IF p.eflag_either THEN a ELSE h
      v == VScale(1, 4, virial4_v(fi, fj, fk, drim, drjm, drkm))
  IN IF p.vflag_atom
       THEN vatom_add(vatom_add(vatom_add(vatom_add(h1, i, <<1, 1>>, v),
                                          j, <<1, 1>>, v), k, <<1, 1>>, v), m, <<1, 1>>, v)
       ELSE h1

\* for (i = 0; i < n; i++) thr->_eatom[list[i]] += epairatom, from entry i on
RECURSIVE eatom_add_list(_, _, _, _, _)
eatom_add_list(h, n, list, i, epairatom) ==
  IF i > n THEN h ELSE eatom_add_list(eatom_add(h, list[i], epairatom), n, list, i + 1, epairatom)

\* for (i = 0; i < n; i++) v_tally(thr->_vatom[list[i]], vtmp), from entry i on
RECURSIVE vatom_add_list(_, _, _, _, _)
vatom_add_list(h, n, list, i, vtmp) ==
  IF i > n THEN h ELSE vatom_add_list(vatom_add(h, list[i], <<1, 1>>, vtmp), n, list, i + 1, vtmp)

\* ev_tally_list_thr, if (pair->vflag_atom): with v not divided by n
list_vatom_unscaled(h, n, list, v) == vatom_add_list(h, n, list, 1, v)

\* ev_tally_list_thr, the body of if (pair->vflag_atom)
list_vatom(h, n, list, v) == vatom_add_list(h, n, list, 1, VScale(1, n, v))

\* list is a sequence here: its entries are list[1..n]
ev_tally_list_thr(h, p, n, list, ecoul, v) ==
  LET g == IF p.eflag_global THEN [h EXCEPT !.thr.eng_coul = @ + ecoul] ELSE h
      epairatom == Scale(1, n, ecoul)
      a == IF p.eflag_atom THEN eatom_add_list(g, n, list, 1, epairatom) ELSE g
      h1 == IF p.eflag_either THEN a ELSE h
      w == IF p.vflag_global THEN [h1 EXCEPT !.thr.virial_pair = v_tally(@, v)] ELSE h1
      x == IF p.vflag_atom THEN list_vatom(w, n, list, v) ELSE w
  IN IF p.vflag_either THEN x ELSE h1

\* v of the dihedral tally: vb1 (x) f1 + vb2 (x) f3 + (vb3+vb2) (x) f4
virial_dihed_v(f1, f3, f4, vb1, vb2, vb3) ==
  << vb1[1] * f1[1] + vb2[1] * f3[1] + (vb3[1] + vb2[1]) * f4[1],
     vb1[2] * f1[2] + vb2[2] * f3[2] + (vb3[2] + vb2[2]) * f4[2],
     vb1[3] * f1[3] + vb2[3] * f3[3] + (vb3[3] + vb2[3]) * f4[3],
     vb1[1] * f1[2] + vb2[1] * f3[2] + (vb3[1] + vb2[1]) * f4[2],
     vb1[1] * f1[3] + vb2[1] * f3[3] + (vb3[1] + vb2[1]) * f4[3],
     vb1[2] * f1[3] + vb2[2] * f3[3] + (vb3[2] + vb2[2]) * f4[3] >>

\* if (i < nlocal) ++cnt, for the four atoms
cnt_local(i1, i2, i3, i4, nlocal_) ==
  (IF i1 < nlocal_ THEN 1 ELSE 0) + (IF i2 < nlocal_ THEN 1 ELSE 0)
    + (IF i3 < nlocal_ THEN 1 ELSE 0) + (IF i4 < nlocal_ THEN 1 ELSE 0)

\* the global energy of the dihedral tally
dihed_eng_global(h, i1, i2, i3, i4, nlocal_, newton_bond, edihedral) ==
  IF newton_bond
    THEN [h EXCEPT !.thr.eng_bond = @ + edihedral]
    ELSE [h EXCEPT !.thr.eng_bond =
            @ + cnt_local(i1, i2, i3, i4, nlocal_) * Scale(1, 4, edihedral)]

\* the per-atom energy of the dihedral tally
dihed_eng_atom(h, i1, i2, i3, i4, nlocal_, newton_bond, edihedral) ==
  LET edihedralquarter == Scale(1, 4, edihedral)
      a1 == IF newton_bond \/ i1 < nlocal_ THEN eatom_add(h, i1, edihedralquarter) ELSE h
      a2 == IF newton_bond \/ i2 < nlocal_ THEN eatom_add(a1, i2, edihedralquarter) ELSE a1
      a3 == IF newton_bond \/ i3 < nlocal_ THEN eatom_add(a2, i3, edihedralquarter) ELSE a2
  IN IF newton_bond \/ i4 < nlocal_ THEN eatom_add(a3, i4, edihedralquarter) ELSE a3

\* the global virial of the dihedral tally
dihed_vir_global(h, i1, i2, i3, i4, nlocal_, newton_bond, v) ==
  IF newton_bond
    THEN [h EXCEPT !.thr.virial_dihed = v_tally(@, v)]
    ELSE [h EXCEPT !.thr.virial_dihed =
            v_tally_scale(@, <<cnt_local(i1, i2, i3, i4, nlocal_), 4>>, v)]

\* the per-atom virial of the dihedral tally; v is the quarter. Without newton_bond
\* the code tests i1 and adds to _vatom[i1] four times.
dihed_vir_atom(h, i1, i2, i3, i4, nlocal_, newton_bond, v) ==
  IF newton_bond
    THEN vatom_add(vatom_add(vatom_add(vatom_add(h, i1, <<1, 1>>, v),
                                       i2, <<1, 1>>, v), i3, <<1, 1>>, v), i4, <<1, 1>>, v)
    ELSE LET a1 == IF i1 < nlocal_ THEN vatom_add(h, i1, <<1, 1>>, v) ELSE h
             a2 == IF i1 < nlocal_ THEN vatom_add(a1, i1, <<1, 1>>, v) ELSE a1
             a3 == IF i1 < nlocal_ THEN vatom_add(a2, i1, <<1, 1>>, v) ELSE a2
         IN IF i1 < nlocal_ THEN vatom_add(a3, i1, <<1, 1>>, v) ELSE a3

ev_tally_thr_dihed(h, d, i1, i2, i3, i4, nlocal_, newton_bond, edihedral, f1, f3, f4, vb1, vb2, vb3) ==
  LET g == IF d.eflag_global
             THEN dihed_eng_global(h, i1, i2, i3, i4, nlocal_, newton_bond, edihedral) ELSE h
      a == IF d.eflag_atom
             THEN dihed_eng_atom(g, i1, i2, i3, i4, nlocal_, newton_bond, edihedral) ELSE g
      h1 == IF d.eflag_either THEN a ELSE h
      v == virial_dihed_v(f1, f3, f4, vb1, vb2, vb3)
      w == IF d.vflag_global
             THEN dihed_vir_global(h1, i1, i2, i3, i4, nlocal_, newton_bond, v) ELSE h1
      x == IF d.vflag_atom
             THEN dihed_vir_atom(w, i1, i2, i3, i4, nlocal_, newton_bond, VScale(1, 4, v)) ELSE w
  IN IF d.vflag_either THEN x ELSE h1

Tally3(t) ==
  /\ pc[t] = "tally"
  /\ cfg.thr_style = THR_PAIR
  /\ ncalls < MaxCalls
  /\ \E i \in Atoms, j \in Atoms, k \in Atoms, evdwl \in EVals, ec \in EVals,
        fj \in Forces, fk \in Forces, drji \in Dels, drki \in Dels2 :
       LET ecoul == 0 - 2 * ec IN
       Called(t, ev_tally3_thr(Mem(t), pair, i, j, k, evdwl, ecoul, fj, fk, drji, drki),
              [ op |-> "ev_tally3_thr", tid |-> t, idx |-> <<i, j, k>>, newton |-> TRUE,
                evdwl |-> evdwl, ecoul |-> ecoul, v |-> virial3_v(fj, fk, drji, drki) ])

Tally4(t) ==
  /\ pc[t] = "tally"
  /\ cfg.thr_style = THR_PAIR
  /\ ncalls < MaxCalls
  /\ \E i \in Atoms, j \in Atoms, k \in Atoms, m \in Atoms, evdwl \in EVals,
        fi \in Forces, drim \in Dels, drjm \in Dels2 :
       Called(t, ev_tally4_thr(Mem(t), pair, i, j, k, m, evdwl, fi, fi, fi, drim, drjm, drim),
              [ op |-> "ev_tally4_thr", tid |-> t, idx |-> <<i, j, k, m>>, newton |-> TRUE,
                evdwl |-> evdwl, ecoul |-> 0, v |-> virial4_v(fi, fi, fi, drim, drjm, drim) ])

TallyList(t) ==
  /\ pc[t] = "tally"
  /\ cfg.thr_style = THR_PAIR
  /\ ncalls < MaxCalls
  /\ \E n \in 1..MaxList, ec \in EVals, f \in Forces, del \in Dels :
       \E list \in [1..n -> Atoms] :
         LET ecoul == 0 - 2 * ec
             v == virial_pair_v(f[1], del)
         IN Called(t, ev_tally_list_thr(Mem(t), pair, n, list, ecoul, v),
                   [ op |-> "ev_tally_list_thr", tid |-> t, idx |-> list, newton |-> TRUE,
                     evdwl |-> 0, ecoul |-> ecoul, v |-> v ])

DihedralTally(t) ==
  /\ pc[t] = "tally"
  /\ cfg.thr_style = THR_DIHEDRAL
  /\ ncalls < MaxCalls
  /\ \E i1 \in Atoms, i2 \in Atoms, i3 \in Atoms, i4 \in Atoms, edihedral \in EVals,
        f1 \in Forces, vb1 \in Dels, vb2 \in Dels2 :
       Called(t, ev_tally_thr_dihed(Mem(t), dihed, i1, i2, i3, i4, nlocal, cfg.newton,
                                    edihedral, f1, f1, f1, vb1, vb2, vb1),
              [ op |-> "ev_tally_thr_dihed", tid |-> t, idx |-> <<i1, i2, i3, i4>>,
                newton |-> cfg.newton, evdwl |-> edihedral, ecoul |-> 0,
                v |-> virial_dihed_v(f1, f1, f1, vb1, vb2, vb1) ])

\* The kernels of the bond, angle, improper and kspace styles add to their own
\* accumulators of the thread; their tallies are not part of thr_omp.cpp.
kernel_tally(td, style, e, v) ==
  CASE style = THR_BOND -> [td EXCEPT !.eng_bond = @ + e, !.virial_bond = VAdd(@, v)]
    [] style = THR_ANGLE -> [td EXCEPT !.eng_angle = @ + e, !.virial_angle = VAdd(@, v)]
    [] style = THR_IMPROPER -> [td EXCEPT !.eng_imprp = @ + e, !.virial_imprp = VAdd(@, v)]
    [] style = THR_KSPACE -> [td EXCEPT !.eng_kspce = @ + e, !.virial_kspce = VAdd(@, v)]
    [] OTHER -> td

KernelTally(t) ==
  /\ pc[t] = "tally"
  /\ cfg.thr_style \in {THR_BOND, THR_ANGLE, THR_IMPROPER, THR_KSPACE}
  /\ ncalls < MaxCalls
  /\ \E e \in EVals, del \in Dels \cup Dels2 :
       LET v == virial_pair_v(e, del) IN
       Called(t, [Mem(t) EXCEPT !.thr = kernel_tally(@, cfg.thr_style, e, v)],
              [ op |-> "kernel", tid |-> t, idx |-> <<>>, newton |-> TRUE,
                evdwl |-> e, ecoul |-> 0, v |-> v ])

\* ------------------------------------------------------------- reduce_thr
evflag(c) == c.eflag # 0 \/ c.vflag # 0

\* the force reduction after every style
AfterSwitch_always(c) == "sync_reduce"

\* where a thread goes after the switch: the force reduction of the last style
AfterSwitch(c) == IF c.thr_style = c.last_omp_style THEN "sync_reduce" ELSE "done"

\* without the barrier of the pair merge: a thread merges as soon as it arrives
AfterFdotr_nosync(c) == IF evflag(c) THEN "critical" ELSE AfterSwitch(c)

\* where a pair thread goes after the fdotr part
AfterFdotr(c) == IF evflag(c) THEN "sync_merge" ELSE AfterSwitch(c)

\* with a barrier in front of the merge of every style
ReduceEntry_allsync(c) == IF c.thr_style = THR_PAIR THEN (IF StyleFlags(c).vflag_fdotr THEN "sync_fdotr" ELSE AfterFdotr(c)) ELSE "sync_merge"

\* without the barrier in front of the fdotr part
ReduceEntry_nosync(c) == IF c.thr_style = THR_PAIR THEN (IF StyleFlags(c).vflag_fdotr THEN "fdotr" ELSE AfterFdotr(c)) ELSE "critical"

\* where reduce_thr starts
ReduceEntry(c) ==
  IF c.thr_style = THR_PAIR
    THEN (IF StyleFlags(c).vflag_fdotr THEN "sync_fdotr" ELSE AfterFdotr(c))
    ELSE "critical"

\* the positions of a thread that has called sync_threads() and waits in it
SyncLabels == {"sync_fdotr", "sync_merge", "sync_reduce"}

\* reduce_thr is entered: the thread has finished its tallies
ReduceBegin(t) ==
  /\ pc[t] = "tally"
  /\ pc' = [pc EXCEPT ![t] = ReduceEntry(cfg)]
  /\ call' = IF call.tid = t THEN NoCall ELSE call
  /\ pre' = IF call.tid = t THEN NoPre ELSE pre
  /\ UNCHANGED <<cfg, thr, eatom, vatom, force, base, critical, reg, ncalls, tallied, atom, atom0, wrote, run, modify, engine>>
  /\ nsync' = [nsync EXCEPT ![t] = @ + IF pc'[t] \in SyncLabels THEN 1 ELSE 0]

\* sync_threads(): an omp barrier, passed when every thread waits at one
AfterSync(l) ==
  CASE l = "sync_fdotr" -> "fdotr"
    [] l = "sync_merge" -> "critical"
    [] l = "sync_reduce" -> "data_reduce"

sync_threads ==
  /\ \A t \in Threads : pc[t] \in SyncLabels
  /\ pc' = [t \in Threads |-> AfterSync(pc[t])]
  /\ UNCHANGED <<cfg, thr, eatom, vatom, force, base, critical, reg, ncalls, call, pre, tallied, atom, atom0, wrote, run, modify, engine, nsync>>

\* thr->virial_fdotr_compute(): the thread's share of sum x_i (x) f_i is added to
\* its virial_pair. Positions and forces are not part of this model: the share is
\* a value that depends on the thread.
virial_fdotr_compute(td, tid) ==
  [td EXCEPT !.virial_pair = VAdd(@, virial_pair_v((tid + 1) * Unit, <<1, 1, 2>>))]

Fdotr(t) ==
  /\ pc[t] = "fdotr"
  /\ thr' = [thr EXCEPT ![t] = virial_fdotr_compute(thr[t], t)]
  /\ pc' = [pc EXCEPT ![t] = AfterFdotr(cfg)]
  /\ UNCHANGED <<cfg, eatom, vatom, force, base, critical, reg, ncalls, call, pre, tallied, atom, atom0, wrote, run, modify, engine>>
  /\ nsync' = [nsync EXCEPT ![t] = @ + IF pc'[t] \in SyncLabels THEN 1 ELSE 0]

\* without the critical section: a thread enters at any time
critical_absent(c) == TRUE

\* #pragma omp critical: a thread enters when no thread is inside
critical_free(c) == c = NullPtr

CriticalEnter(t) ==
  /\ pc[t] = "critical"
  /\ critical_free(critical)
  /\ critical' = t
  /\ pc' = [pc EXCEPT ![t] = "merge"]
  /\ UNCHANGED <<cfg, thr, eatom, vatom, force, base, reg, ncalls, call, pre, tallied, atom, atom0, wrote, run, modify, engine, nsync>>

\* the body of the critical section of the style: totals += the thread's sums
merge_thr(f, td, style, eflag, vflag) ==
  CASE style = THR_PAIR ->
         LET f1 == IF Bit(eflag, 1)
                     THEN [f EXCEPT !.pair.eng_vdwl = @ + td.eng_vdwl,
                                    !.pair.eng_coul = @ + td.eng_coul]
                     ELSE f
         IN IF vflag % 4 # 0
              THEN [f1 EXCEPT !.pair.virial = VAdd(@, td.virial_pair)] ELSE f1
    [] style = THR_BOND ->
         [f EXCEPT !.bond.energy = @ + td.eng_bond,
                   !.bond.virial = VAdd(@, td.virial_bond)]
    [] style = THR_ANGLE ->
         [f EXCEPT !.angle.energy = @ + td.eng_angle,
                   !.angle.virial = VAdd(@, td.virial_angle)]
    [] style = THR_DIHEDRAL ->
         [f EXCEPT !.dihedral.energy = @ + td.eng_dihed,
                   !.dihedral.virial = VAdd(@, td.virial_dihed)]
    [] style = THR_IMPROPER ->
         [f EXCEPT !.improper.energy = @ + td.eng_imprp,
                   !.improper.virial = VAdd(@, td.virial_imprp)]
    [] style = THR_KSPACE ->
         [f EXCEPT !.kspace.energy = @ + td.eng_kspce,
                   !.kspace.virial = VAdd(@, td.virial_kspce)]

\* total += sum is a read of the totals followed by a write
MergeRead(t) ==
  /\ pc[t] = "merge"
  /\ reg' = [reg EXCEPT ![t] = force]
  /\ pc' = [pc EXCEPT ![t] = "merge_write"]
  /\ UNCHANGED <<cfg, thr, eatom, vatom, force, base, critical, ncalls, call, pre, tallied, atom, atom0, wrote, run, modify, engine, nsync>>

\* the write, and the end of the critical section
MergeWrite(t) ==
  /\ pc[t] = "merge_write"
  /\ force' = merge_thr(reg[t], thr[t], cfg.thr_style, cfg.eflag, cfg.vflag)
  /\ reg' = [reg EXCEPT ![t] = NoTotals]
  /\ critical' = IF critical = t THEN NullPtr ELSE critical
  /\ pc' = [pc EXCEPT ![t] = AfterSwitch(cfg)]
  /\ UNCHANGED <<cfg, thr, eatom, vatom, base, ncalls, call, pre, tallied, atom, atom0, wrote, run, modify, engine>>
  /\ nsync' = [nsync EXCEPT ![t] = @ + IF pc'[t] \in SyncLabels THEN 1 ELSE 0]

\* data_reduce_thr(dall, nall, nthreads, ndim, tid): thread tid adds, for the
\* elements ifrom..ito-1 of its share, the values of the other threads' slices to
\* the value of thread 0's slice
reduce_from(nvals_, nthreads_, tid) == tid * (nvals_ \div nthreads_ + 1)
reduce_to(nvals_, nthreads_, tid) ==
  LET idelta == nvals_ \div nthreads_ + 1
      ifrom == reduce_from(nvals_, nthreads_, tid)
  IN IF ifrom + idelta > nvals_ THEN nvals_ ELSE ifrom + idelta
reduce_range(nvals_, nthreads_, tid) ==
  reduce_from(nvals_, nthreads_, tid)..(reduce_to(nvals_, nthreads_, tid) - 1)

RECURSIVE slice_sum(_, _, _, _)
slice_sum(dall, nvals_, m, n) ==
  IF n < 0 THEN 0 ELSE dall[n * nvals_ + m] + slice_sum(dall, nvals_, m, n - 1)

data_reduce_thr(dall, nall_, nthreads_, ndim_, tid) ==
  LET nv == ndim_ * nall_
  IN [i \in DOMAIN dall |->
        IF i \in reduce_range(nv, nthreads_, tid) /\ i < nv
          THEN slice_sum(dall, nv, i, nthreads_ - 1)
          ELSE dall[i]]

\* every thread passes thread 0's number
reduce_arrays_tid0(a, tid) ==
  [f |-> data_reduce_thr(a.f, nall, nthreads, ndim, 0),
   torque |-> IF a.torque # NoArray
                THEN data_reduce_thr(a.torque, nall, nthreads, ndim, 0) ELSE a.torque]

\* lines 199-201: the force array, and the torque array when the atom style has one
reduce_arrays(a, tid) ==
  [f |-> data_reduce_thr(a.f, nall, nthreads, ndim, tid),
   torque |-> IF a.torque # NoArray
                THEN data_reduce_thr(a.torque, nall, nthreads, ndim, tid) ELSE a.torque]

DataReduce(t) ==
  /\ pc[t] = "data_reduce"
  /\ atom' = reduce_arrays(atom, t)
  /\ wrote' = [i \in Elems |->
                 IF i \in reduce_range(nvals, nthreads, t) THEN wrote[i] \cup {t} ELSE wrote[i]]
  /\ pc' = [pc EXCEPT ![t] = "done"]
  /\ UNCHANGED <<cfg, thr, eatom, vatom, force, base, critical, reg, ncalls, call, pre, tallied, atom0, run, modify, engine, nsync>>

\* the reduction is run once more on slices cleared by the caller: every slice but
\* thread 0's is set to zero, then every thread calls data_reduce_thr again
zeroed(dall) == IF dall = NoArray THEN NoArray ELSE [i \in Elems |-> IF i < nvals THEN dall[i] ELSE 0]

ZeroSlices ==
  /\ \A t \in Threads : pc[t] = "done"
  /\ cfg.thr_style = cfg.last_omp_style
  /\ run < MaxRuns
  /\ run' = run + 1
  /\ atom' = [f |-> zeroed(atom.f), torque |-> zeroed(atom.torque)]
  /\ atom0' = atom'
  /\ wrote' = [i \in Elems |-> {}]
  /\ pc' = [t \in Threads |-> "data_reduce"]
  /\ UNCHANGED <<cfg, thr, eatom, vatom, force, base, critical, reg, ncalls, call, pre, tallied, modify, engine, nsync>>

Next ==
  \/ \E t \in Threads : Setup(t)
  \/ \E t \in Threads : PairTally(t)
  \/ \E t \in Threads : Tally3(t)
  \/ \E t \in Threads : Tally4(t)
  \/ \E t \in Threads : TallyList(t)
  \/ \E t \in Threads : DihedralTally(t)
  \/ \E t \in Threads : KernelTally(t)
  \/ \E t \in Threads : ReduceBegin(t)
  \/ sync_threads
  \/ \E t \in Threads : Fdotr(t)
  \/ \E t \in Threads : CriticalEnter(t)
  \/ \E t \in Threads : MergeRead(t)
  \/ \E t \in Threads : MergeWrite(t)
  \/ \E t \in Threads : DataReduce(t)

\* the whole phase, with every combination of the request flags
Spec == Init /\ [][Next]_vars

\* the setup and the tallies of a phase, with every combination of the request flags
TallyNext ==
  \/ \E t \in Threads : Setup(t)
  \/ \E t \in Threads : PairTally(t)
  \/ \E t \in Threads : Tally3(t)
  \/ \E t \in Threads : Tally4(t)
  \/ \E t \in Threads : TallyList(t)
  \/ \E t \in Threads : DihedralTally(t)
  \/ \E t \in Threads : KernelTally(t)

TallySpec == Init /\ [][TallyNext]_vars

\* the whole phase, tallies and reduce_thr, when no per-atom accounting is asked for
InitGlobal == Init /\ ~Bit(cfg.eflag, 2) /\ ~Bit(cfg.vflag, 4)

ReduceSpec == InitGlobal /\ [][Next]_vars

\* reduce_thr alone, after a phase without tallies, over the contents of the force
\* and torque arrays, followed by a second run of the reduction on cleared slices
ForceInit ==
  /\ cfg \in { c \in [ thr_style : {THR_PAIR, THR_BOND}, last_omp_style : Styles,
                       eflag : {0}, vflag : {0, 2}, newton : {FALSE} ] :
                 /\ c.last_omp_style \in {c.thr_style, THR_KSPACE}
                 /\ (c.vflag % 4 = 2 => c.thr_style = THR_PAIR) }
  /\ pc = [t \in Threads |-> "setup"]
  /\ thr = [t \in Threads |-> ThrData0]
  /\ eatom = [c \in 0..(nthreads * nall - 1) |-> 0]
  /\ vatom = [c \in 0..(nthreads * nall - 1) |-> Zero6]
  /\ force = Totals(5 * Unit, <<Unit, 0, 0, 0, 0, 2 * Unit>>)
  /\ base = force
  /\ critical = NullPtr
  /\ reg = [t \in Threads |-> NoTotals]
  /\ ncalls = 0
  /\ call = NoCall
  /\ pre = NoPre
  /\ tallied = 0
  /\ atom \in [f : Arrays, torque : Arrays \cup {NoArray}]
  /\ atom0 = atom
  /\ wrote = [i \in Elems |-> {}]
  /\ run = 1
  /\ modify = <<"package_omp">>
  /\ engine = ThrOMP(modify)
  /\ nsync = [t \in Threads |-> 0]

ForceNext ==
  \/ \E t \in Threads : Setup(t)
  \/ \E t \in Threads : ReduceBegin(t)
  \/ sync_threads
  \/ \E t \in Threads : Fdotr(t)
  \/ \E t \in Threads : CriticalEnter(t)
  \/ \E t \in Threads : MergeRead(t)
  \/ \E t \in Threads : MergeWrite(t)
  \/ \E t \in Threads : DataReduce(t)
  \/ ZeroSlices

ForceSpec == ForceInit /\ [][ForceNext]_vars

\* ev_setup_thr alone, on accumulators that still hold what an earlier phase left:
\* slices of an earlier setup and an energy sum
StalePtrs == {NullPtr, 0, nall}
SetupInit ==
  /\ cfg \in [ thr_style : {THR_PAIR}, last_omp_style : {THR_PAIR},
                eflag : EFlags, vflag : VFlags, newton : {FALSE} ]
  /\ pc = [t \in Threads |-> "setup"]
  /\ thr \in [Threads -> {[ThrData0 EXCEPT !._eatom = e, !._vatom = v, !.eng_vdwl = x] :
                             e \in StalePtrs, v \in StalePtrs, x \in {0, Unit}}]
  /\ eatom = [c \in 0..(nthreads * nall - 1) |-> 0]
  /\ vatom = [c \in 0..(nthreads * nall - 1) |-> Zero6]
  /\ force = Totals(5 * Unit, <<Unit, 0, 0, 0, 0, 2 * Unit>>)
  /\ base = force
  /\ critical = NullPtr
  /\ reg = [t \in Threads |-> NoTotals]
  /\ ncalls = 0
  /\ call = NoCall
  /\ pre = NoPre
  /\ tallied = 0
  /\ atom = [f |-> [i \in Elems |-> (i \div nvals) + (i % nvals)], torque |-> NoArray]
  /\ atom0 = atom
  /\ wrote = [i \in Elems |-> {}]
  /\ run = 1
  /\ modify = <<"package_omp">>
  /\ engine = ThrOMP(modify)
  /\ nsync = [t \in Threads |-> 0]

SetupNext == \E t \in Threads : Setup(t)

SetupSpec == SetupInit /\ [][SetupNext]_vars

\* the construction of the style, over what is registered in lmp->modify, and the
\* setup that follows it
FixIds == {"package_omp", "nve"}
CtorInit ==
  /\ cfg \in [ thr_style : Styles, last_omp_style : {THR_KSPACE},
                eflag : {0, 2}, vflag : {0, 4}, newton : {FALSE} ]
  /\ pc = [t \in Threads |-> "setup"]
  /\ thr = [t \in Threads |-> ThrData0]
  /\ eatom = [c \in 0..(nthreads * nall - 1) |-> 0]
  /\ vatom = [c \in 0..(nthreads * nall - 1) |-> Zero6]
  /\ force = Totals(5 * Unit, <<Unit, 0, 0, 0, 0, 2 * Unit>>)
  /\ base = force
  /\ critical = NullPtr
  /\ reg = [t \in Threads |-> NoTotals]
  /\ ncalls = 0
  /\ call = NoCall
  /\ pre = NoPre
  /\ tallied = 0
  /\ atom = [f |-> [i \in Elems |-> (i \div nvals) + (i % nvals)], torque |-> NoArray]
  /\ atom0 = atom
  /\ wrote = [i \in Elems |-> {}]
  /\ run = 1
  /\ modify \in UNION {[1..n -> FixIds] : n \in 0..MaxFix}
  /\ engine = NoEngine
  /\ nsync = [t \in Threads |-> 0]

CtorNext ==
  \/ Construct
  \/ \E t \in Threads : Setup(t)

CtorSpec == CtorInit /\ [][CtorNext]_vars

\* the whole phase under a scheduler that lets every thread run: a thread that can
\* take a step of the setup or of reduce_thr takes one in the end (its tallies are
\* finitely many), and the barrier opens once every thread waits in it
ThreadStep(t) ==
  \/ Setup(t)
  \/ ReduceBegin(t)
  \/ Fdotr(t)
  \/ CriticalEnter(t)
  \/ MergeRead(t)
  \/ MergeWrite(t)
  \/ DataReduce(t)

FairSpec ==
  /\ InitGlobal
  /\ [][Next]_vars
  /\ \A t \in Threads : WF_vars(ThreadStep(t))
  /\ WF_vars(sync_threads)

\* ------------------------------------------------------------- properties
AllDone == \A t \in Threads : pc[t] = "done"

RECURSIVE SumUpTo(_, _)
SumUpTo(f, n) == IF n < 0 THEN 0 ELSE f[n] + SumUpTo(f, n - 1)

\* the sum over the threads of a scalar, or of a 6-vector, of their ThrData
ESum(field) == SumUpTo([t \in Threads |-> thr[t][field]], nthreads - 1)
VSum(field) == [n \in 1..6 |-> SumUpTo([t \in Threads |-> thr[t][field][n]], nthreads - 1)]

Names(style) ==
  CASE style = THR_BOND -> [tot |-> "bond", e |-> "eng_bond", v |-> "virial_bond"]
    [] style = THR_ANGLE -> [tot |-> "angle", e |-> "eng_angle", v |-> "virial_angle"]
    [] style = THR_DIHEDRAL -> [tot |-> "dihedral", e |-> "eng_dihed", v |-> "virial_dihed"]
    [] style = THR_IMPROPER -> [tot |-> "improper", e |-> "eng_imprp", v |-> "virial_imprp"]
    [] style = THR_KSPACE -> [tot |-> "kspace", e |-> "eng_kspce", v |-> "virial_kspce"]

\* C1: once every thread has completed reduce_thr, the shared energy and the six
\* virial components of the style equal their values before the merge plus the sum
\* over the threads of the thread's accumulator of that style (for the pair style:
\* the energies when eflag bit 1 is set, the virial when vflag bit 1 or 2 is set).
C1_MergeExactlyOnce ==
  AllDone =>
    IF cfg.thr_style = THR_PAIR
      THEN /\ Bit(cfg.eflag, 1) =>
                /\ force.pair.eng_vdwl = base.pair.eng_vdwl + ESum("eng_vdwl")
                /\ force.pair.eng_coul = base.pair.eng_coul + ESum("eng_coul")
           /\ cfg.vflag % 4 # 0 =>
                force.pair.virial = VAdd(base.pair.virial, VSum("virial_pair"))
      ELSE LET n == Names(cfg.thr_style)
           IN /\ force[n.tot].energy = base[n.tot].energy + ESum(n.e)
              /\ force[n.tot].virial = VAdd(base[n.tot].virial, VSum(n.v))

\* every thread has merged non-zero pair energies and a non-zero pair virial
C1_Witness ==
  /\ AllDone
  /\ cfg.thr_style = THR_PAIR
  /\ Bit(cfg.eflag, 1)
  /\ cfg.vflag % 4 # 0
  /\ \A t \in Threads : thr[t].eng_vdwl # 0 /\ thr[t].virial_pair # Zero6

\* C2: with global energy accounting and newton_bond on, after the dihedral tallies
\* of the threads and reduce_thr of the dihedral style on every thread, the shared
\* dihedral energy has increased by the sum of the tallied dihedral energies.
C2_DihedralEnergyMerged ==
  (AllDone /\ cfg.thr_style = THR_DIHEDRAL /\ Bit(cfg.eflag, 1) /\ cfg.newton) =>
    force.dihedral.energy = base.dihedral.energy + tallied

\* ---- what the most recent tally call did to the memory of its thread
Cells == 0..(nthreads * nall - 1)
Occ(idx, a) == Cardinality({n \in DOMAIN idx : idx[n] = a})
CntLocal(idx) == Cardinality({n \in DOMAIN idx : idx[n] < nlocal})
InSlice(c, off) == c \in off..(off + nall - 1)
\* how often the atom of cell c of the slice at off is listed in idx
OccCell(c, off, idx) == IF InSlice(c, off) THEN Occ(idx, c - off) ELSE 0
\* the same, counting locally owned atoms alone
OccCellOwned(c, off, idx) == IF InSlice(c, off) /\ c - off < nlocal THEN Occ(idx, c - off) ELSE 0
EDelta(c) == eatom[c] - pre.eatom[c]
VDelta(c) == [n \in 1..6 |-> vatom[c][n] - pre.vatom[c][n]]
ThrDelta(field) == thr[call.tid][field] - pre.thr[field]
ThrVDelta(field) == [n \in 1..6 |-> thr[call.tid][field][n] - pre.thr[field][n]]
IsPairCall == call.op = "ev_tally_thr"

\* C3: pairwise tally with global energy accounting: in newton mode eng_vdwl and
\* eng_coul of the thread increase by evdwl and ecoul whatever i and j are; in half
\* mode by half of them once for each of i, j that is < nlocal.
C3_PairEnergy ==
  (IsPairCall /\ pair.eflag_global) =>
    LET shares == IF call.newton THEN 2 ELSE CntLocal(call.idx)
    IN /\ 2 * ThrDelta("eng_vdwl") = shares * call.evdwl
       /\ 2 * ThrDelta("eng_coul") = shares * call.ecoul

\* a half-mode tally between two ghosts, made on accumulators that are not zero
C3_Witness ==
  /\ IsPairCall
  /\ pair.eflag_global
  /\ ~call.newton
  /\ CntLocal(call.idx) = 0
  /\ pre.thr.eng_vdwl # 0

\* C4, as claimed: pairwise tally with per-atom energy accounting adds half of
\* evdwl + ecoul to the entries of i and of j, each only when the atom is < nlocal,
\* in newton mode and in half mode alike; a ghost atom never receives credit.
C4_PerAtomOwnedOnly ==
  (IsPairCall /\ pair.eflag_atom) =>
    \A c \in Cells :
      2 * EDelta(c) = OccCellOwned(c, pre.thr._eatom, call.idx) * (call.evdwl + call.ecoul)

\* C4, amended: the entries of i and of j each receive half of evdwl + ecoul when
\* newton mode is on or the atom is < nlocal; a ghost atom receives no credit in
\* half mode and its half in newton mode. No other cell of the buffer changes.
C4_PerAtomEnergy ==
  (IsPairCall /\ pair.eflag_atom) =>
    \A c \in Cells :
      2 * EDelta(c) =
        (IF call.newton THEN OccCell(c, pre.thr._eatom, call.idx)
                        ELSE OccCellOwned(c, pre.thr._eatom, call.idx))
          * (call.evdwl + call.ecoul)

\* a newton-mode tally whose atom j is a ghost, which received its half
C4_Witness ==
  /\ IsPairCall
  /\ pair.eflag_atom
  /\ call.newton
  /\ call.idx[1] < nlocal
  /\ call.idx[2] >= nlocal
  /\ EDelta(pre.thr._eatom + call.idx[2]) # 0

\* C5: pairwise tally with global virial accounting: in newton mode each component
\* of virial_pair increases by v[k]; in half mode by 0.5*v[k] once for each of i, j
\* that is < nlocal.
C5_PairVirial ==
  (IsPairCall /\ pair.vflag_global) =>
    LET shares == IF call.newton THEN 2 ELSE CntLocal(call.idx)
    IN \A n \in 1..6 : 2 * ThrVDelta("virial_pair")[n] = shares * call.v[n]

\* a half-mode tally between a local atom and a ghost
C5_Witness ==
  /\ IsPairCall
  /\ pair.vflag_global
  /\ ~call.newton
  /\ CntLocal(call.idx) = 1
  /\ pre.thr.virial_pair # Zero6

\* the pairwise tally of the recorded call, made in the other mode on the memory
\* as it was before the call
OtherMode ==
  LET i == call.idx[1]
      j == call.idx[2]
      h1 == IF pair.eflag_either
              THEN e_tally_thr(pre, pair, i, j, nlocal, ~call.newton, call.evdwl, call.ecoul)
              ELSE pre
  IN IF pair.vflag_either
       THEN v_tally_thr(h1, pair, i, j, nlocal, ~call.newton, call.v) ELSE h1

\* C6: for a pairwise interaction between two locally owned atoms the tally in
\* newton mode and the tally in half mode leave the accumulators of the thread and
\* the per-atom entries in the same state.
C6_NewtonHalfAgree ==
  (IsPairCall /\ CntLocal(call.idx) = 2) => Mem(call.tid) = OtherMode

\* a half-mode tally between two local atoms with all four accountings enabled
C6_Witness ==
  /\ IsPairCall
  /\ CntLocal(call.idx) = 2
  /\ ~call.newton
  /\ pair.eflag_global /\ pair.eflag_atom /\ pair.vflag_global /\ pair.vflag_atom
  /\ Mem(call.tid) # pre

IsDihedCall == call.op = "ev_tally_thr_dihed"

\* C7: dihedral tally with global accounting: eng_dihed and the six components of
\* virial_dihed of the thread increase by cnt/4 times the energy and the virial of
\* the interaction without newton_bond, cnt the number of i1..i4 that are < nlocal,
\* and by the full value with newton_bond.
C7_DihedralGlobal ==
  IsDihedCall =>
    LET shares == IF call.newton THEN 4 ELSE CntLocal(call.idx)
    IN /\ dihed.eflag_global => 4 * ThrDelta("eng_dihed") = shares * call.evdwl
       /\ dihed.vflag_global =>
            \A n \in 1..6 : 4 * ThrVDelta("virial_dihed")[n] = shares * call.v[n]

\* C8: dihedral tally without newton_bond, with per-atom virial accounting: the
\* per-atom virial of each of i1..i4 increases by a quarter of the virial of the
\* interaction if the atom is < nlocal (once for each time it is listed) and is
\* unchanged otherwise.
C8_DihedralPerAtomVirial ==
  (IsDihedCall /\ ~call.newton /\ dihed.vflag_atom) =>
    \A c \in Cells : \A n \in 1..6 :
      4 * VDelta(c)[n] = OccCellOwned(c, pre.thr._vatom, call.idx) * call.v[n]

\* the sum over the cells of the buffer of the increase of the per-atom energy
EDeltaSum == SumUpTo([c \in Cells |-> EDelta(c)], nthreads * nall - 1)
VDeltaSum == [n \in 1..6 |-> SumUpTo([c \in Cells |-> VDelta(c)[n]], nthreads * nall - 1)]

\* C9: triplet and quadruplet tally with per-atom energy accounting add an equal
\* share to every listed atom, local or ghost, one share for each time the atom is
\* listed: a third of evdwl + ecoul for the triplet, a quarter of evdwl for the
\* quadruplet; the shares sum to the energy of the interaction.
C9_EqualShares ==
  /\ (call.op = "ev_tally3_thr" /\ pair.eflag_atom) =>
       /\ \A c \in Cells :
            3 * EDelta(c) = OccCell(c, pre.thr._eatom, call.idx) * (call.evdwl + call.ecoul)
       /\ EDeltaSum = call.evdwl + call.ecoul
  /\ (call.op = "ev_tally4_thr" /\ pair.eflag_atom) =>
       /\ \A c \in Cells :
            4 * EDelta(c) = OccCell(c, pre.thr._eatom, call.idx) * call.evdwl
       /\ EDeltaSum = call.evdwl

\* a triplet whose third atom is a ghost and whose first two atoms are the same
C9_Witness ==
  /\ call.op = "ev_tally3_thr"
  /\ pair.eflag_atom
  /\ call.idx[1] = call.idx[2]
  /\ call.idx[3] >= nlocal
  /\ call.idx[1] < nlocal
  /\ EDelta(pre.thr._eatom + call.idx[3]) # 0

\* C10: list tally over n >= 1 entries: with per-atom virial accounting every entry
\* of the list adds v/n to the per-atom virial of its atom, and the increments sum
\* to v; with per-atom energy accounting every entry adds ecoul/n, summing to ecoul.
C10_ListShares ==
  call.op = "ev_tally_list_thr" =>
    LET n == Cardinality(DOMAIN call.idx)
    IN /\ pair.vflag_atom =>
            /\ \A c \in Cells : \A m \in 1..6 :
                 n * VDelta(c)[m] = OccCell(c, pre.thr._vatom, call.idx) * call.v[m]
            /\ VDeltaSum = call.v
       /\ pair.eflag_atom =>
            /\ \A c \in Cells : n * EDelta(c) = OccCell(c, pre.thr._eatom, call.idx) * call.ecoul
            /\ EDeltaSum = call.ecoul

\* a list of two entries tallied with per-atom energy and virial accounting
C10_Witness ==
  /\ call.op = "ev_tally_list_thr"
  /\ Cardinality(DOMAIN call.idx) = 2
  /\ pair.vflag_atom
  /\ pair.eflag_atom
  /\ VDeltaSum = call.v
  /\ call.v # Zero6

\* the positions of a thread that is merging or has merged its sums
Merging == {"merge", "merge_write"}
BeforeMergeBarrier == {"setup", "tally", "sync_fdotr", "fdotr"}

Reduced(dall0, dall) ==
  \A m \in 0..(nvals - 1) :
    dall[m] = SumUpTo([t \in Threads |-> dall0[t * nvals + m]], nthreads - 1)

\* the elements of the force array that thread t has reduced
WroteBy(t) == {i \in Elems : t \in wrote[i]}
LastStyle == cfg.thr_style = cfg.last_omp_style

\* C12: reduce_thr reduces the force and torque arrays if and only if thr_style is
\* fix->last_omp_style; no thread reduces before every thread has passed the
\* barrier after the merge; the force array is reduced always, the torque array
\* when the atom style has one.
C12_ReduceWhenLast ==
  /\ (\E t \in Threads : WroteBy(t) # {}) => LastStyle
  /\ (AllDone /\ ~LastStyle) => atom = atom0
  /\ (AllDone /\ LastStyle) =>
        /\ \A m \in 0..(nvals - 1) : wrote[m] # {}
        /\ Reduced(atom0.f, atom.f)
        /\ IF atom0.torque = NoArray
             THEN atom.torque = NoArray
             ELSE Reduced(atom0.torque, atom.torque)
  /\ \A t \in Threads :
        (run = 1 /\ (pc[t] = "data_reduce" \/ WroteBy(t) # {})) =>
          \A u \in Threads : pc[u] \in {"data_reduce", "done"}

\* the last style, with torques: reduce_thr has returned in every thread and the
\* force and torque arrays are not what they were
C12_Witness ==
  /\ AllDone
  /\ LastStyle
  /\ run = 1
  /\ atom0.torque # NoArray
  /\ atom.torque # atom0.torque
  /\ atom.f # atom0.f

\* C13: after the reduction has run in every thread, every element of thread 0's
\* slice is the sum of that element over the slices as they were before; every
\* thread reduces a contiguous range of elements and no element is reduced by two
\* threads; a second run on slices that were set to zero, thread 0's excepted,
\* leaves thread 0's slice as it was.
C13_ReducedSum ==
  /\ (AllDone /\ LastStyle) =>
        /\ Reduced(atom0.f, atom.f)
        /\ atom0.torque # NoArray => Reduced(atom0.torque, atom.torque)
  /\ \A i \in Elems : Cardinality(wrote[i]) <= 1
  /\ \A t \in Threads : \A i, k \in WroteBy(t) : \A j \in i..k : j \in WroteBy(t)
  /\ (AllDone /\ run = MaxRuns) =>
        \A m \in 0..(nvals - 1) :
          /\ atom.f[m] = atom0.f[m]
          /\ atom0.torque # NoArray => atom.torque[m] = atom0.torque[m]

\* the second run is over, both threads have reduced elements, and thread 0's slice
\* holds sums that are not zero
C13_Witness ==
  /\ AllDone
  /\ run = MaxRuns
  /\ WroteBy(0) # {}
  /\ WroteBy(1) # {}
  /\ atom.f[0] > 1
  /\ atom.torque # NoArray
  /\ atom.torque[nvals - 1] > nvals

\* C14: ev_setup_thr of thread tid sets _eatom to tid*nall exactly when eflag has
\* bit 2 and _vatom to tid*nall exactly when vflag has bit 4; the slice that is not
\* asked for keeps its value, and so does everything else: the sums of the
\* thread, the other threads' ThrData and the two buffers.
C14_SetupFrame ==
  [][\A t \in Threads : (pc[t] = "setup" /\ pc'[t] # "setup") =>
       /\ thr'[t]._eatom = IF Bit(cfg.eflag, 2) THEN t * nall ELSE thr[t]._eatom
       /\ thr'[t]._vatom = IF Bit(cfg.vflag, 4) THEN t * nall ELSE thr[t]._vatom
       /\ [thr'[t] EXCEPT !._eatom = thr[t]._eatom, !._vatom = thr[t]._vatom] = thr[t]
       /\ \A u \in Threads \ {t} : thr'[u] = thr[u]
       /\ eatom' = eatom
       /\ vatom' = vatom]_vars

\* thread 1 has run the setup with per-atom energy asked for and per-atom virial
\* not: its energy slice is the second one, its virial slice and its energy sum are
\* what an earlier phase left
C14_Witness ==
  /\ pc[1] = "tally"
  /\ Bit(cfg.eflag, 2)
  /\ ~Bit(cfg.vflag, 4)
  /\ thr[1]._eatom = nall
  /\ thr[1]._vatom = 0
  /\ thr[1].eng_vdwl = Unit

\* a fix of the id package_omp is registered
Registered == \E n \in 1..Len(modify) : modify[n] = "package_omp"

\* C15: constructed without a fix package_omp registered, the ThrOMP ends in the
\* fatal error at once, is never usable and none of its operations runs;
\* constructed with one registered, it is built and its fix is that fix.
C15_FatalWithoutFix ==
  /\ engine # NoEngine =>
        IF Registered
          THEN /\ engine.state = "built"
               /\ engine.fix \in 0..(Len(modify) - 1)
               /\ modify[engine.fix + 1] = "package_omp"
          ELSE engine = [state |-> "fatal", fix |-> NullPtr]
  /\ ~Registered => \A t \in Threads : pc[t] = "setup"

\* the constructor has run with two fixes registered, none of them package_omp
C15_Witness ==
  /\ Len(modify) = 2
  /\ ~Registered
  /\ engine.state = "fatal"

\* C16: triplet, quadruplet and list tally with global virial accounting add the
\* whole virial v of the interaction to virial_pair of the calling thread; with
\* per-atom virial accounting every listed atom receives v/N, N the number of
\* atoms of the interaction.
C16_FullVirialToPair ==
  call.op \in {"ev_tally3_thr", "ev_tally4_thr", "ev_tally_list_thr"} =>
    LET n == Cardinality(DOMAIN call.idx)
    IN /\ pair.vflag_global => ThrVDelta("virial_pair") = call.v
       /\ pair.vflag_atom =>
            \A c \in Cells : \A m \in 1..6 :
              n * VDelta(c)[m] = OccCell(c, pre.thr._vatom, call.idx) * call.v[m]

\* C17: at most one thread at a time is in the section of reduce_thr that adds to
\* the shared totals; no two threads are between the read and the write of a total.
C17_OneThreadMerging ==
  /\ Cardinality({t \in Threads : pc[t] \in Merging}) <= 1
  /\ \A t \in Threads : pc[t] \in Merging => critical = t
  /\ \A t \in Threads : pc[t] \notin Merging => critical # t

\* a bond thread is between the read and the write, the other one waits to enter
C17_Witness ==
  /\ cfg.thr_style = THR_BOND
  /\ pc[0] = "critical"
  /\ pc[1] = "merge_write"
  /\ critical = 1

\* the cells a tally has changed
Written == {c \in Cells : EDelta(c) # 0 \/ VDelta(c) # Zero6}

\* C18: once the threads have run the setup with the same nall, the cells
\* tid*nall + a of two threads differ for all atoms a, b, in the energy buffer and
\* in the virial buffer; every cell a tally writes is in the slice of the calling
\* thread and in no other thread's slice: no cell is written by two threads.
C18_DisjointSlices ==
  /\ \A t1 \in Threads : \A t2 \in Threads \ {t1} :
        (pc[t1] # "setup" /\ pc[t2] # "setup") =>
          \A a \in Atoms : \A b \in Atoms :
            /\ pair.eflag_atom => thr[t1]._eatom + a # thr[t2]._eatom + b
            /\ pair.vflag_atom => thr[t1]._vatom + a # thr[t2]._vatom + b
  /\ call.op # "none" =>
        \A c \in Written :
          /\ InSlice(c, call.tid * nall)
          /\ \A u \in Threads \ {call.tid} : ~InSlice(c, u * nall)

\* both threads have run the setup and thread 1 has tallied a pair into its slice
\* of the energy buffer and of the virial buffer
C18_Witness ==
  /\ \A t \in Threads : pc[t] # "setup"
  /\ call.op = "ev_tally_thr"
  /\ call.tid = 1
  /\ EDelta(nall + call.idx[1]) # 0
  /\ VDelta(nall + call.idx[2]) # Zero6

\* the positions of a thread that has passed the first barrier of the fdotr path
PastFdotrBarrier == {"fdotr", "sync_merge", "critical", "merge", "merge_write", "sync_reduce", "data_reduce", "done"}

\* C19: pair style, virial by F dot r, pair the last style: a thread computes its
\* fdotr virial only after every thread has come to the first barrier, and when a
\* thread begins the force reduction every thread has its fdotr virial computed.
C19_FdotrBeforeReduce ==
  (pair.vflag_fdotr /\ LastStyle) =>
    /\ \A t \in Threads : pc[t] \in PastFdotrBarrier =>
          \A u \in Threads : pc[u] \notin {"setup", "tally"}
    /\ \A t \in Threads : pc[t] \in {"data_reduce", "done"} =>
          \A u \in Threads :
            /\ pc[u] \in {"data_reduce", "done"}
            /\ thr[u].virial_pair = virial_fdotr_compute(ThrData0, u).virial_pair

\* thread 1 has reduced its share of the forces and thread 0 is about to, after
\* tallies, with both fdotr virials computed
C19_Witness ==
  /\ pair.vflag_fdotr
  /\ LastStyle
  /\ pc[0] = "data_reduce"
  /\ pc[1] = "done"
  /\ ncalls = MaxCalls
  /\ thr[0].virial_pair # Zero6
  /\ thr[1].virial_pair # thr[0].virial_pair

\* the calls of sync_threads() in reduce_thr, counted from the conditions of the
\* three if statements
Barriers(c) ==
  (IF c.thr_style = THR_PAIR /\ StyleFlags(c).vflag_fdotr THEN 1 ELSE 0)
  + (IF c.thr_style = THR_PAIR /\ (c.eflag # 0 \/ c.vflag # 0) THEN 1 ELSE 0)
  + (IF c.thr_style = c.last_omp_style THEN 1 ELSE 0)

\* C20: the threads that have returned from reduce_thr have made the same number
\* of barrier calls, a number between 0 and 3 fixed by vflag_fdotr, eflag|vflag and
\* thr_style == last_omp_style; and under fair scheduling every thread returns
\* from reduce_thr: none waits forever at a barrier or for the merge section.
C20_AllReturn ==
  /\ [](\A t \in Threads :
          /\ nsync[t] <= Barriers(cfg)
          /\ pc[t] = "done" => (nsync[t] = Barriers(cfg) /\ nsync[t] \in 0..3))
  /\ <>AllDone

\* every thread has returned from reduce_thr after three barriers
C20_Witness ==
  /\ AllDone
  /\ \A t \in Threads : nsync[t] = 3
  /\ ncalls > 0

====
